---- MODULE Spec2Model ----
(***************************************************************************)
(* Model of the signaling coordinator of the video chat room server:       *)
(* ConnectionManager, RoomManager, RecordingManager and the message router *)
(* VideoChatApplication.  One asyncio task per websocket connection; the   *)
(* managers' coroutines contain no real suspension point, so each manager  *)
(* call is atomic, and a handler yields only inside websocket.send_str.    *)
(* Each action below is the piece of a handler that runs between two       *)
(* suspension points.                                                      *)
(***************************************************************************)
EXTENDS Integers, Sequences, FiniteSets, TLC

\* ---------------------------------------------------------------- bounds
NumUsers == 3
MaxUuid == 2
MaxRecordings == 2
RecUsers == 2
NumTasks == 2
MaxLinks == 3
DownUsers == 2
MaxTime == 1
MaxCapacity == 3
MaxFiles == 1

\* ------------------------------------------------------- program values
Users == 1..NumUsers
\* room ids are client supplied strings; "" is the falsy one
RoomIds == {"", "a"}
None == "<None>"
NoTime == -1
MAX_USERS_PER_ROOM == 2

\* callers of the managers other than the connections' tasks (the shutdown
\* hook, callers of the WebRTCManager)
Tasks == 1..NumTasks

\* pc, loc, log: position, locals and messages sent so far of each connection's
\* task; last: what the step just taken did (the event, its arguments, the
\* manager's return value and the messages the event has sent); task: position
\* and locals of each of the other tasks
VARIABLES connections, room_id, closed, peer_connections, rooms, active_recordings, recording_history, nextRec, clock, pc, loc, log, last, task

vars == <<connections, room_id, closed, peer_connections, rooms, active_recordings, recording_history, nextRec, clock, pc, loc, log, last, task>>

\* ------------------------------------------------------ python helpers
EmptyDict == [k \in {} |-> 0]

DictPut(d, k, v) == [x \in (DOMAIN d) \cup {k} |-> IF x = k THEN v ELSE d[x]]

DictDel(d, k) == [x \in (DOMAIN d) \ {k} |-> d[x]]

\* Python truthiness of an Optional[str]: None and "" are falsy
Truthy(x) == x # None /\ x # ""

InList(x, s) == \E i \in 1..Len(s) : s[i] = x

FirstIndex(s, x) == CHOOSE i \in 1..Len(s) : s[i] = x /\ \A j \in 1..(i - 1) : s[j] # x

\* list.remove(x): removes the first occurrence
ListRemove(s, x) == IF InList(x, s) THEN [i \in 1..(Len(s) - 1) |-> IF i < FirstIndex(s, x) THEN s[i] ELSE s[i + 1]] ELSE s

ListExclude(s, x) == SelectSeq(s, LAMBDA y : y # x)

\* ------------------------------------------------------------- models
\* is_full that is off by one
\* is_full that counts the room full one user early
IsFullEarlyMutant(room) == Len(room.users) + 1 >= room.max_users

IsFullMutant(room) == Len(room.users) > room.max_users

IsFull(room) == Len(room.users) >= room.max_users

NewRoomMutant(max, uuid) == [users |-> <<>>, max_users |-> 0, session_id |-> uuid]

NewRoom(max, uuid) == [users |-> <<>>, max_users |-> max, session_id |-> uuid]

NewRecording(oid, sid, r, t) == [oid |-> oid, session_id |-> sid, room_id |-> r, started_at |-> t, ended_at |-> NoTime, status |-> "active", files |-> <<>>]

Duration(rec) == IF rec.ended_at # NoTime THEN rec.ended_at - rec.started_at ELSE NoTime

\* -------------------------------------------------------- RoomManager
\* create_room that applies max_users to a room that exists
CreateRoomMutant(rms, r, max, uuid) ==
  IF r \notin DOMAIN rms THEN DictPut(rms, r, NewRoom(max, uuid)) ELSE [rms EXCEPT ![r].max_users = max]

CreateRoom(rms, r, max, uuid) == IF r \notin DOMAIN rms THEN DictPut(rms, r, NewRoom(max, uuid)) ELSE rms

\* leave_room that keeps the room it has emptied
LeaveRoomMutant(conns, rms, rid, u) ==
  IF u \notin conns \/ ~Truthy(rid[u]) THEN [ret |-> None, rooms |-> rms, room_id |-> rid]
  ELSE LET r == rid[u] IN
       IF r \in DOMAIN rms /\ InList(u, rms[r].users)
       THEN [ret |-> r, rooms |-> [rms EXCEPT ![r].users = ListRemove(rms[r].users, u)], room_id |-> [rid EXCEPT ![u] = None]]
       ELSE [ret |-> None, rooms |-> rms, room_id |-> [rid EXCEPT ![u] = None]]

LeaveRoom(conns, rms, rid, u) ==
  IF u \notin conns \/ ~Truthy(rid[u]) THEN [ret |-> None, rooms |-> rms, room_id |-> rid]
  ELSE LET r == rid[u] IN
       IF r \in DOMAIN rms /\ InList(u, rms[r].users)
       THEN LET us == ListRemove(rms[r].users, u)
                rms1 == [rms EXCEPT ![r].users = us]
            IN [ret |-> r, rooms |-> IF us = <<>> THEN DictDel(rms1, r) ELSE rms1, room_id |-> [rid EXCEPT ![u] = None]]
       ELSE [ret |-> None, rooms |-> rms, room_id |-> [rid EXCEPT ![u] = None]]

\* join_room that leaves the current room before it checks the capacity
JoinRoomMutant(conns, rms, rid, uuid, u, r) ==
  IF u \notin conns THEN [ok |-> FALSE, rooms |-> rms, room_id |-> rid]
  ELSE LET lv == LeaveRoom(conns, CreateRoom(rms, r, MAX_USERS_PER_ROOM, uuid), rid, u)
       IN IF r \in DOMAIN lv.rooms /\ IsFull(lv.rooms[r])
          THEN [ok |-> FALSE, rooms |-> lv.rooms, room_id |-> lv.room_id]
          ELSE [ok |-> TRUE,
                rooms |-> IF r \in DOMAIN lv.rooms THEN [lv.rooms EXCEPT ![r].users = Append(@, u)] ELSE lv.rooms,
                room_id |-> [lv.room_id EXCEPT ![u] = r]]

\* join_room: `room` is the object found (or created) before leave_room runs;
\* leave_room may remove that very object from the registry, and the append
\* then goes to the object, which the registry no longer holds.
JoinRoom(conns, rms, rid, uuid, u, r) ==
  IF u \notin conns THEN [ok |-> FALSE, rooms |-> rms, room_id |-> rid]
  ELSE LET rms1 == CreateRoom(rms, r, MAX_USERS_PER_ROOM, uuid)
           room == rms1[r]
       IN IF IsFull(room) /\ ~InList(u, room.users)
          THEN [ok |-> FALSE, rooms |-> rms1, room_id |-> rid]
          ELSE LET lv == LeaveRoom(conns, rms1, rid, u)
                   roomUsers == IF lv.ret = r THEN ListRemove(room.users, u) ELSE room.users
               IN IF ~InList(u, roomUsers)
                  THEN [ok |-> TRUE,
                        rooms |-> IF r \in DOMAIN lv.rooms THEN [lv.rooms EXCEPT ![r].users = Append(roomUsers, u)] ELSE lv.rooms,
                        room_id |-> [lv.room_id EXCEPT ![u] = r]]
                  ELSE [ok |-> TRUE, rooms |-> lv.rooms, room_id |-> lv.room_id]

GetRoomUsers(rms, r) == IF r \in DOMAIN rms THEN rms[r].users ELSE <<>>

\* the loop of cleanup_room: leave_room for each user of the snapshot us
RECURSIVE LeaveAll(_, _, _, _)
LeaveAll(conns, rms, rid, us) ==
  IF us = <<>> THEN [rooms |-> rms, room_id |-> rid]
  ELSE LET lv == LeaveRoom(conns, rms, rid, Head(us))
       IN LeaveAll(conns, lv.rooms, lv.room_id, Tail(us))

\* cleanup_room: ret is the value it returns
CleanupRoom(conns, rms, rid, r) ==
  IF r \notin DOMAIN rms THEN [ret |-> FALSE, rooms |-> rms, room_id |-> rid]
  ELSE LET st == LeaveAll(conns, rms, rid, rms[r].users)
       IN IF r \in DOMAIN st.rooms
          THEN [ret |-> TRUE, rooms |-> DictDel(st.rooms, r), room_id |-> st.room_id]
          ELSE [ret |-> FALSE, rooms |-> st.rooms, room_id |-> st.room_id]

\* --------------------------------------------------- RecordingManager
NoRecording == [oid |-> 0, session_id |-> 0, room_id |-> None, started_at |-> NoTime, ended_at |-> NoTime, status |-> "none", files |-> <<>>]

\* start_recording without the check for an active recording
StartRecordingMutant(rms, act, r, oid, t) ==
  IF r \notin DOMAIN rms THEN [ok |-> FALSE, session_id |-> 0, active |-> act, created |-> FALSE]
  ELSE [ok |-> TRUE, session_id |-> rms[r].session_id, active |-> DictPut(act, r, NewRecording(oid, rms[r].session_id, r, t)), created |-> TRUE]

\* start_recording that looks for an active recording before it looks for
\* the room
StartRecordingActiveFirstMutant(rms, act, r, oid, t) ==
  IF r \in DOMAIN act THEN [ok |-> TRUE, session_id |-> act[r].session_id, active |-> act, created |-> FALSE]
  ELSE IF r \notin DOMAIN rms THEN [ok |-> FALSE, session_id |-> 0, active |-> act, created |-> FALSE]
  ELSE [ok |-> TRUE, session_id |-> rms[r].session_id, active |-> DictPut(act, r, NewRecording(oid, rms[r].session_id, r, t)), created |-> TRUE]

\* start_recording up to the point where the session folder is ensured;
\* ok = FALSE stands for the ValueError "Room not found"
StartRecording(rms, act, r, oid, t) ==
  IF r \notin DOMAIN rms THEN [ok |-> FALSE, session_id |-> 0, active |-> act, created |-> FALSE]
  ELSE IF r \in DOMAIN act THEN [ok |-> TRUE, session_id |-> act[r].session_id, active |-> act, created |-> FALSE]
  ELSE [ok |-> TRUE, session_id |-> rms[r].session_id, active |-> DictPut(act, r, NewRecording(oid, rms[r].session_id, r, t)), created |-> TRUE]

\* a stop_recording that leaves the recording in the active recordings
StopRecordingMutant(act, hist, r, t) ==
  IF r \notin DOMAIN act THEN [rec |-> NoRecording, active |-> act, history |-> hist]
  ELSE LET rec == [act[r] EXCEPT !.ended_at = t, !.status = "stopped"]
       IN [rec |-> rec, active |-> DictPut(act, r, rec), history |-> DictPut(hist, rec.session_id, rec)]

StopRecording(act, hist, r, t) ==
  IF r \notin DOMAIN act THEN [rec |-> NoRecording, active |-> act, history |-> hist]
  ELSE LET rec == [act[r] EXCEPT !.ended_at = t, !.status = "stopped"]
       IN [rec |-> rec, active |-> DictDel(act, r), history |-> DictPut(hist, rec.session_id, rec)]

ForceStopRecording(act, hist, r, reason, t) ==
  IF r \notin DOMAIN act THEN [rec |-> NoRecording, active |-> act, history |-> hist]
  ELSE LET rec == [act[r] EXCEPT !.ended_at = t, !.status = reason]
       IN [rec |-> rec, active |-> DictDel(act, r), history |-> DictPut(hist, rec.session_id, rec)]

\* a cleanup_room_recording that stops nothing
CleanupRoomRecordingMutant(act, hist, r, t) == [rec |-> NoRecording, active |-> act, history |-> hist]

CleanupRoomRecording(act, hist, r, t) ==
  IF r \in DOMAIN act THEN ForceStopRecording(act, hist, r, "stopped (room deleted)", t)
  ELSE [rec |-> NoRecording, active |-> act, history |-> hist]

\* ------------------------------------------------------ WebRTCManager
CleanupPeerConnection(conns, pcs, u, t) ==
  LET p1 == IF u \in conns /\ t \in pcs[u] THEN [pcs EXCEPT ![u] = @ \ {t}] ELSE pcs
  IN IF t \in conns /\ u \in p1[t] THEN [p1 EXCEPT ![t] = @ \ {u}] ELSE p1

RECURSIVE CleanupTargets(_, _, _, _)
CleanupTargets(conns, pcs, u, targets) ==
  IF targets = {} THEN pcs
  ELSE LET t == CHOOSE x \in targets : TRUE
       IN CleanupTargets(conns, CleanupPeerConnection(conns, pcs, u, t), u, targets \ {t})

CleanupAllUserConnections(conns, pcs, u) == IF u \notin conns THEN pcs ELSE CleanupTargets(conns, pcs, u, pcs[u])

\* pc.close() of the handle owner -> key raises without the try/except of
\* cleanup_peer_connection: the exception escapes to the caller
CloseRaisedMutant(pcs, owner, key) == [pcs |-> pcs, escaped |-> TRUE]

\* pc.close() of the handle owner -> key raises in cleanup_peer_connection:
\* the except clause logs it, the del is skipped and the handle stays
CloseRaised(pcs, owner, key) == [pcs |-> pcs, escaped |-> FALSE]

\* one half of cleanup_peer_connection: the handle owner -> key, if owner is
\* registered and has it, is closed and deleted; F are the handles whose
\* close() raises
CloseHandle(conns, pcs, owner, key, F) ==
  IF owner \in conns /\ key \in pcs[owner]
  THEN IF <<owner, key>> \in F THEN CloseRaised(pcs, owner, key)
       ELSE [pcs |-> [pcs EXCEPT ![owner] = @ \ {key}], escaped |-> FALSE]
  ELSE [pcs |-> pcs, escaped |-> FALSE]

\* cleanup_peer_connection(u, t) with the handles F raising in close()
CleanupPeerConnectionRaising(conns, pcs, u, t, F) ==
  LET fw == CloseHandle(conns, pcs, u, t, F)
  IN IF fw.escaped THEN fw ELSE CloseHandle(conns, fw.pcs, t, u, F)

RECURSIVE CleanupTargetsRaising(_, _, _, _, _)
CleanupTargetsRaising(conns, pcs, u, targets, F) ==
  IF targets = {} THEN [pcs |-> pcs, escaped |-> FALSE]
  ELSE LET t == CHOOSE x \in targets : TRUE
           c == CleanupPeerConnectionRaising(conns, pcs, u, t, F)
       IN IF c.escaped THEN c ELSE CleanupTargetsRaising(conns, c.pcs, u, targets \ {t}, F)

\* cleanup_all_user_connections(u) with the handles F raising in close()
CleanupAllUserConnectionsRaising(conns, pcs, u, F) ==
  IF u \notin conns THEN [pcs |-> pcs, escaped |-> FALSE] ELSE CleanupTargetsRaising(conns, pcs, u, pcs[u], F)

\* -------------------------------------------------- ConnectionManager
RemoveConnection(conns, pcs, cl, u) ==
  IF u \notin conns THEN [connections |-> conns, peer_connections |-> pcs, closed |-> cl]
  ELSE [connections |-> conns \ {u}, peer_connections |-> [pcs EXCEPT ![u] = {}], closed |-> [cl EXCEPT ![u] = TRUE]]

\* ------------------------------------------------- outbound messages
BaseMsg == [to |-> 0, type |-> "", room_id |-> None, user_id |-> 0, session_id |-> 0, existing_users |-> <<>>, max_users |-> 0, status |-> "", duration |-> NoTime, message |-> "", from_id |-> 0]

\* an error reported as a recording status message
ErrorMsgMutant(text) == [BaseMsg EXCEPT !.type = "recording_status", !.status = text]

ErrorMsg(text) == [BaseMsg EXCEPT !.type = "error", !.message = text]

\* send_to_user: nothing is sent to an unregistered user or a closed socket
SendToUser(conns, cl, lg, to, msg) == IF to \in conns /\ ~cl[to] THEN Append(lg, [msg EXCEPT !.to = to]) ELSE lg

\* broadcast_to_room skips, without suspending, the users it cannot send to
RECURSIVE DropUnsendable(_, _, _)
DropUnsendable(q, conns, cl) ==
  IF q = <<>> THEN q
  ELSE IF Head(q) \in conns /\ ~cl[Head(q)] THEN q
  ELSE DropUnsendable(Tail(q), conns, cl)

LocInit == [type |-> "", room |-> None, target |-> 0, ok |-> FALSE, created |-> FALSE, old |-> None, session_id |-> 0, duration |-> NoTime, bq |-> <<>>, k |-> "", raises |-> {}, max_users |-> 0]

Label(u, lc, done, lg) == [user |-> u, type |-> lc.type, room |-> lc.room, target |-> lc.target, ok |-> lc.ok, created |-> lc.created, old |-> lc.old, session_id |-> lc.session_id, done |-> done, log |-> lg, raises |-> lc.raises, max_users |-> lc.max_users]

NoLabel == Label(0, LocInit, FALSE, <<>>)

\* a task that is not running: op is the operation it runs, at its position,
\* u and t the operation's arguments, targets and todo the snapshots it
\* iterates, raised the exception that last escaped a manager call it made
TaskInit == [op |-> "", at |-> "idle", u |-> 0, t |-> 0, targets |-> <<>>, todo |-> <<>>, bq |-> <<>>, old |-> None, raised |-> ""]

\* -------------------------------------------------------------- Init
Init ==
  /\ connections = {}
  /\ room_id = [u \in Users |-> None]
  /\ closed = [u \in Users |-> FALSE]
  /\ peer_connections = [u \in Users |-> {}]
  /\ rooms = EmptyDict
  /\ active_recordings = EmptyDict
  /\ recording_history = EmptyDict
  /\ nextRec = 1
  /\ clock = 0
  /\ pc = [u \in Users |-> "init"]
  /\ loc = [u \in Users |-> LocInit]
  /\ log = [u \in Users |-> <<>>]
  /\ last = NoLabel
  /\ task = [k \in Tasks |-> TaskInit]

\* uuid.uuid4(): an identifier that nothing refers to (the least such one)
UsedUuids ==
  {rooms[r].session_id : r \in DOMAIN rooms} \cup {active_recordings[r].session_id : r \in DOMAIN active_recordings}
  \cup DOMAIN recording_history
  \cup {loc[u].session_id : u \in Users}
  \cup UNION {{log[u][i].session_id : i \in 1..Len(log[u])} : u \in Users}

FreeUuids == (1..MaxUuid) \ UsedUuids

uuid4 == CHOOSE x \in FreeUuids : \A y \in FreeUuids : x <= y

\* datetime.now(): time does not go back
Now == {t \in clock..(clock + 1) : t <= MaxTime}

\* the values of a datetime.now() whose result is used only if called holds
NowIf(called) == IF called THEN Now ELSE {clock}

\* ------------------------------------------------ handler fragments
\* the handler of the event returns: the task waits for its next message
Return(u, lc, lg) ==
  /\ pc' = [pc EXCEPT ![u] = "recv"]
  /\ loc' = [loc EXCEPT ![u] = LocInit]
  /\ log' = [log EXCEPT ![u] = <<>>]
  /\ last' = Label(u, lc, TRUE, lg)

\* a handler that the receive loop does not wait for: while it is suspended
\* in a send, the loop takes the next message
SuspendMutant(u, at, lc, lg) ==
  /\ pc' = [pc EXCEPT ![u] = "recv"]
  /\ loc' = [loc EXCEPT ![u] = lc]
  /\ log' = [log EXCEPT ![u] = lg]
  /\ last' = Label(u, lc, FALSE, lg)

\* the handler is suspended in a send
Suspend(u, at, lc, lg) ==
  /\ pc' = [pc EXCEPT ![u] = at]
  /\ loc' = [loc EXCEPT ![u] = lc]
  /\ log' = [log EXCEPT ![u] = lg]
  /\ last' = Label(u, lc, FALSE, lg)

\* the message that the handler with locals lc broadcasts to the room
BroadcastMsg(u, lc) ==
  IF lc.type = "join_room" THEN [BaseMsg EXCEPT !.type = "user_joined", !.user_id = u]
  ELSE IF lc.type = "start_recording"
  THEN [BaseMsg EXCEPT !.type = "recording_status", !.status = "started", !.session_id = lc.session_id]
  ELSE IF lc.type = "stop_recording"
  THEN [BaseMsg EXCEPT !.type = "recording_status", !.status = "stopped", !.session_id = lc.session_id, !.duration = lc.duration]
  ELSE [BaseMsg EXCEPT !.type = "user_left", !.user_id = u]

\* the code that follows a broadcast loop: lc.k = "ret" (the handler returns),
\* "leave" (rest of handle_leave_room), "cleanup" (rest of cleanup_user)
AfterBroadcast(u, lc, lg, rms, act, hist, cl, clk, t) ==
  IF lc.k = "leave"
  THEN /\ peer_connections' = CleanupAllUserConnections(connections, peer_connections, u)
       /\ Return(u, lc, SendToUser(connections, cl, lg, u, [BaseMsg EXCEPT !.type = "room_left", !.room_id = lc.old]))
       /\ active_recordings' = act /\ recording_history' = hist /\ clock' = clk
       /\ connections' = connections /\ closed' = cl
  ELSE IF lc.k = "cleanup"
  THEN LET deleted == Truthy(lc.old) /\ lc.old \notin DOMAIN rms
           cr == IF deleted THEN CleanupRoomRecording(act, hist, lc.old, t) ELSE [rec |-> NoRecording, active |-> act, history |-> hist]
           ca == CleanupAllUserConnectionsRaising(connections, peer_connections, u, lc.raises)
           \* an exception that escapes cleanup_all_user_connections skips
           \* remove_connection and is logged by cleanup_user
           rm == IF ca.escaped THEN [connections |-> connections, peer_connections |-> ca.pcs, closed |-> cl]
                 ELSE RemoveConnection(connections, ca.pcs, cl, u)
       IN /\ active_recordings' = cr.active /\ recording_history' = cr.history
          /\ clock' = IF cr.rec # NoRecording THEN t ELSE clk
          /\ peer_connections' = rm.peer_connections
          /\ connections' = rm.connections
          /\ closed' = rm.closed
          /\ pc' = [pc EXCEPT ![u] = "done"]
          /\ loc' = [loc EXCEPT ![u] = LocInit]
          /\ log' = [log EXCEPT ![u] = <<>>]
          /\ last' = Label(u, lc, TRUE, lg)
  ELSE /\ Return(u, lc, lg)
       /\ active_recordings' = act /\ recording_history' = hist /\ clock' = clk
       /\ connections' = connections /\ closed' = cl
       /\ peer_connections' = peer_connections

\* broadcast_to_room from the recipients q0 on: send to the next user that
\* can be sent to and suspend there, or fall through to the code after the loop
Broadcast(u, q0, lc, lg, rms, act, hist, cl, clk, t) ==
  LET q == DropUnsendable(q0, connections, cl)
  IN IF q # <<>>
     THEN /\ Suspend(u, "bcast", [lc EXCEPT !.bq = Tail(q)], Append(lg, [BroadcastMsg(u, lc) EXCEPT !.to = Head(q)]))
          /\ active_recordings' = act /\ recording_history' = hist /\ clock' = clk
          /\ connections' = connections /\ closed' = cl
          /\ peer_connections' = peer_connections
     ELSE AfterBroadcast(u, lc, lg, rms, act, hist, cl, clk, t)

\* -------------------------------------------------------------- actions
\* websocket_handler up to the first receive; the user id is a fresh uuid
Connect(u) ==
  /\ pc[u] = "init"
  /\ \A v \in Users : v < u => pc[v] # "init"
  /\ connections' = connections \cup {u}
  /\ room_id' = [room_id EXCEPT ![u] = None]
  /\ pc' = [pc EXCEPT ![u] = "recv"]
  /\ last' = Label(u, [LocInit EXCEPT !.type = "connect"], TRUE, <<>>)
  /\ UNCHANGED <<closed, peer_connections, rooms, active_recordings, recording_history, nextRec, clock, loc, log, task>>

\* handle_join_room up to the send of room_joined or of the error
handle_join_room(u, r) ==
  /\ pc[u] = "recv" /\ ~closed[u]
  /\ r \notin DOMAIN rooms => FreeUuids # {}
  /\ LET j == JoinRoom(connections, rooms, room_id, IF r \in DOMAIN rooms THEN 0 ELSE uuid4, u, r)
         lc == [LocInit EXCEPT !.type = "join_room", !.room = r, !.ok = j.ok]
     IN /\ rooms' = j.rooms
        /\ room_id' = j.room_id
        /\ IF ~j.ok
           THEN Return(u, lc, SendToUser(connections, closed, <<>>, u, ErrorMsg("Cannot join room (room full or error)")))
           ELSE IF r \notin DOMAIN j.rooms
           THEN \* room is None: AttributeError, caught in handle_message
                Return(u, lc, SendToUser(connections, closed, <<>>, u, ErrorMsg("Error processing join_room")))
           ELSE Suspend(u, "snap",
                        [lc EXCEPT !.k = "ret"],
                        SendToUser(connections, closed, <<>>, u,
                              [BaseMsg EXCEPT !.type = "room_joined", !.room_id = r, !.user_id = u,
                                              !.session_id = j.rooms[r].session_id,
                                              !.existing_users = ListExclude(j.rooms[r].users, u),
                                              !.max_users = j.rooms[r].max_users]))
  /\ UNCHANGED <<connections, closed, peer_connections, active_recordings, recording_history, nextRec, clock, task>>

\* handle_leave_room up to its first send
handle_leave_room(u) ==
  /\ pc[u] = "recv" /\ ~closed[u]
  /\ \E t \in NowIf(LeaveRoom(connections, rooms, room_id, u).ret \in DOMAIN active_recordings) :
       LET lv == LeaveRoom(connections, rooms, room_id, u)
           deleted == lv.ret \notin DOMAIN lv.rooms
           cr == IF deleted THEN CleanupRoomRecording(active_recordings, recording_history, lv.ret, t)
                 ELSE [rec |-> NoRecording, active |-> active_recordings, history |-> recording_history]
           clk == IF cr.rec # NoRecording THEN t ELSE clock
           lc == [LocInit EXCEPT !.type = "leave_room", !.old = lv.ret, !.k = "leave"]
       IN /\ rooms' = lv.rooms
          /\ room_id' = lv.room_id
          /\ IF Truthy(lv.ret)
             THEN Broadcast(u, ListExclude(GetRoomUsers(lv.rooms, lv.ret), u), lc, <<>>,
                            lv.rooms, cr.active, cr.history, closed, clk, t)
             ELSE /\ Return(u, lc, <<>>)
                  /\ UNCHANGED <<connections, closed, peer_connections, active_recordings, recording_history, clock>>
  /\ UNCHANGED <<nextRec, task>>

\* handle_start_recording up to the send of recording_started or of the error;
\* fail: create_session_folder raises (an OSError, caught in handle_message)
handle_start_recording(u) ==
  /\ pc[u] = "recv" /\ ~closed[u]
  /\ LET lc == [LocInit EXCEPT !.type = "start_recording", !.room = room_id[u]]
     IN IF u \notin connections \/ ~Truthy(room_id[u])
        THEN /\ Return(u, lc, SendToUser(connections, closed, <<>>, u, ErrorMsg("Must be in a room to start recording")))
             /\ UNCHANGED <<active_recordings, nextRec, clock>>
        ELSE \E t \in NowIf(room_id[u] \in DOMAIN rooms /\ room_id[u] \notin DOMAIN active_recordings), fail \in BOOLEAN :
             LET r == room_id[u]
                 sr == StartRecording(rooms, active_recordings, r, nextRec, t)
             IN /\ sr.created => nextRec <= MaxRecordings
                /\ fail => sr.created
                /\ nextRec' = IF sr.created THEN nextRec + 1 ELSE nextRec
                /\ active_recordings' = sr.active
                /\ clock' = IF sr.created THEN t ELSE clock
                /\ IF ~sr.ok
                   THEN Return(u, lc, SendToUser(connections, closed, <<>>, u, ErrorMsg("Room not found")))
                   ELSE IF fail
                   THEN Return(u, lc, SendToUser(connections, closed, <<>>, u, ErrorMsg("Error processing start_recording")))
                   ELSE Suspend(u, "snap",
                                [lc EXCEPT !.ok = TRUE, !.created = sr.created, !.session_id = sr.session_id, !.k = "ret"],
                                SendToUser(connections, closed, <<>>, u,
                                   [BaseMsg EXCEPT !.type = "recording_started", !.session_id = sr.session_id, !.room_id = r]))
  /\ UNCHANGED <<connections, room_id, closed, peer_connections, rooms, recording_history, task>>

\* handle_stop_recording up to the send of recording_stopped or of the error
handle_stop_recording(u) ==
  /\ pc[u] = "recv" /\ ~closed[u]
  /\ LET lc == [LocInit EXCEPT !.type = "stop_recording", !.room = room_id[u]]
     IN IF u \notin connections \/ ~Truthy(room_id[u])
        THEN /\ Return(u, lc, SendToUser(connections, closed, <<>>, u, ErrorMsg("Must be in a room to stop recording")))
             /\ UNCHANGED <<active_recordings, recording_history, clock>>
        ELSE \E t \in NowIf(room_id[u] \in DOMAIN active_recordings) :
             LET sp == StopRecording(active_recordings, recording_history, room_id[u], t)
                 found == sp.rec # NoRecording
             IN /\ active_recordings' = sp.active
                /\ recording_history' = sp.history
                /\ clock' = IF found THEN t ELSE clock
                /\ IF found
                   THEN Suspend(u, "snap",
                                [lc EXCEPT !.ok = TRUE, !.session_id = sp.rec.session_id, !.duration = Duration(sp.rec), !.k = "ret"],
                                SendToUser(connections, closed, <<>>, u,
                                   [BaseMsg EXCEPT !.type = "recording_stopped", !.session_id = sp.rec.session_id, !.duration = Duration(sp.rec)]))
                   ELSE Return(u, lc, SendToUser(connections, closed, <<>>, u, ErrorMsg("No active recording found")))
  /\ UNCHANGED <<connections, room_id, closed, peer_connections, rooms, nextRec, task>>

\* broadcast_to_room: the snapshot of the room's users (pc = "snap") and each
\* further send of the loop (pc = "bcast"), with the code that follows the loop
broadcast_to_room(u) ==
  /\ pc[u] \in {"snap", "bcast"}
  /\ \E t \in NowIf(loc[u].k = "cleanup" /\ loc[u].old \in DOMAIN active_recordings) :
       LET q0 == IF pc[u] = "bcast" THEN loc[u].bq
                 ELSE IF loc[u].type = "join_room" THEN ListExclude(GetRoomUsers(rooms, loc[u].room), u)
                 ELSE GetRoomUsers(rooms, room_id[u])
       IN Broadcast(u, q0, loc[u], log[u], rooms, active_recordings, recording_history, closed, clock, t)
  /\ UNCHANGED <<room_id, rooms, nextRec, task>>

\* cleanup_user up to its first send, in a teardown in which close() raises
\* for the handles F
Teardown(u, F) ==
  /\ pc[u] = "recv"
  /\ \E t \in NowIf(LeaveRoom(connections, rooms, room_id, u).ret \in DOMAIN active_recordings) :
       LET cl == [closed EXCEPT ![u] = TRUE]
           lv == LeaveRoom(connections, rooms, room_id, u)
           lc == [LocInit EXCEPT !.type = "disconnect", !.old = lv.ret, !.k = "cleanup", !.raises = F]
       IN /\ rooms' = lv.rooms
          /\ room_id' = lv.room_id
          /\ IF Truthy(lv.ret)
             THEN Broadcast(u, ListExclude(GetRoomUsers(lv.rooms, lv.ret), u), lc, <<>>,
                            lv.rooms, active_recordings, recording_history, cl, clock, t)
             ELSE AfterBroadcast(u, lc, <<>>, lv.rooms, active_recordings, recording_history, cl, clock, t)
  /\ UNCHANGED <<nextRec, task>>

\* the client closes the connection: the receive loop ends with the websocket
\* closed and cleanup_user runs up to its first send
cleanup_user(u) == Teardown(u, {})

\* connections whose clients send room events only
Next ==
  \/ \E u \in Users : Connect(u)
  \/ \E u \in Users, r \in RoomIds : handle_join_room(u, r)
  \/ \E u \in Users : handle_leave_room(u)
  \/ \E u \in Users : broadcast_to_room(u)
  \/ \E u \in Users : cleanup_user(u)

Spec == Init /\ [][Next]_vars

\* RecUsers connections whose clients also start and stop recordings
NextRec ==
  \/ \E u \in 1..RecUsers : Connect(u)
  \/ \E u \in Users, r \in RoomIds : handle_join_room(u, r)
  \/ \E u \in Users : handle_leave_room(u)
  \/ \E u \in Users : handle_start_recording(u)
  \/ \E u \in Users : handle_stop_recording(u)
  \/ \E u \in Users : broadcast_to_room(u)
  \/ \E u \in Users : cleanup_user(u)

SpecRec == Init /\ [][NextRec]_vars

\* ------------------------------------- WebRTCManager, handle by handle
\* the orders in which list(user.peer_connections.keys()) can list the keys
RECURSIVE Orderings(_)
Orderings(S) == IF S = {} THEN {<<>>} ELSE UNION {{<<x>> \o sq : sq \in Orderings(S \ {x})} : x \in S}

RECURSIVE NextTarget(_, _, _)
\* a cleanup_peer_connection that leaves the reverse handle alone
EnterReverseMutant(conns, pcs, tk) == NextTarget(conns, pcs, tk)

\* the second half of cleanup_peer_connection(tk.u, tk.t): the task suspends
\* in pc.close() of the reverse handle if tk.t is registered and has one
EnterReverse(conns, pcs, tk) ==
  IF tk.t \in conns /\ tk.u \in pcs[tk.t] THEN [tk EXCEPT !.at = "rev"] ELSE NextTarget(conns, pcs, tk)

\* cleanup_peer_connection(tk.u, tk.t) from its start: the task suspends in
\* pc.close() of the handle if tk.u is registered and has one
EnterForward(conns, pcs, tk) ==
  IF tk.u \in conns /\ tk.t \in pcs[tk.u] THEN [tk EXCEPT !.at = "fwd"] ELSE EnterReverse(conns, pcs, tk)

\* the loop of cleanup_all_user_connections over the snapshot tk.targets; a
\* single cleanup_peer_connection has no target left and returns
NextTarget(conns, pcs, tk) ==
  IF tk.targets = <<>> THEN [tk EXCEPT !.at = "idle"]
  ELSE EnterForward(conns, pcs, [tk EXCEPT !.t = Head(tk.targets), !.targets = Tail(tk.targets)])

\* task k continues as tk, or is through with its operation; deleted: the
\* step deleted a handle
LinkResult(k, tk, deleted) ==
  /\ task' = [task EXCEPT ![k] = IF tk.at = "idle" THEN TaskInit ELSE tk]
  /\ last' = Label(tk.u, [LocInit EXCEPT !.type = tk.op, !.target = tk.t, !.ok = deleted], tk.at = "idle", <<>>)

\* create_peer_connection that does not look for an existing handle
CreatePeerConnectionMutant(pcs, u, t) == [created |-> TRUE, pcs |-> [pcs EXCEPT ![u] = @ \cup {t}]]

\* create_peer_connection(u, t) for a registered u: created tells whether an
\* RTCPeerConnection was constructed
CreatePeerConnection(pcs, u, t) ==
  IF t \in pcs[u] THEN [created |-> FALSE, pcs |-> pcs]
  ELSE [created |-> TRUE, pcs |-> [pcs EXCEPT ![u] = @ \cup {t}]]

\* create_peer_connection(u, t) for a registered u (links are set up while no
\* cleanup is under way, at most MaxLinks of them at a time)
create_peer_connection(u, t) ==
  /\ \A j \in Tasks : task[j].at = "idle"
  /\ u \in connections
  /\ Cardinality({<<x, y>> \in Users \X Users : y \in peer_connections[x]}) < MaxLinks
  /\ LET c == CreatePeerConnection(peer_connections, u, t)
     IN /\ peer_connections' = c.pcs
        /\ last' = Label(u, [LocInit EXCEPT !.type = "create_peer_connection", !.target = t, !.created = c.created], TRUE, <<>>)
  /\ UNCHANGED <<connections, room_id, closed, rooms, active_recordings, recording_history, nextRec, clock, pc, loc, log, task>>

\* task k calls cleanup_peer_connection(u, t): up to its first pc.close()
cleanup_peer_connection(k, u, t) ==
  /\ task[k].at = "idle"
  /\ LinkResult(k, EnterForward(connections, peer_connections, [TaskInit EXCEPT !.op = "cleanup_peer_connection", !.u = u, !.t = t]), FALSE)
  /\ UNCHANGED <<connections, room_id, closed, peer_connections, rooms, active_recordings, recording_history, nextRec, clock, pc, loc, log>>

\* task k calls cleanup_all_user_connections(u): up to its first pc.close()
cleanup_all_user_connections(k, u) ==
  /\ task[k].at = "idle"
  /\ LET tk == [TaskInit EXCEPT !.op = "cleanup_all_user_connections", !.u = u]
     IN IF u \notin connections THEN LinkResult(k, tk, FALSE)
        ELSE \E sq \in Orderings(peer_connections[u]) :
               LinkResult(k, NextTarget(connections, peer_connections, [tk EXCEPT !.targets = sq]), FALSE)
  /\ UNCHANGED <<connections, room_id, closed, peer_connections, rooms, active_recordings, recording_history, nextRec, clock, pc, loc, log>>

\* pc.close() returns to task k: the handle is deleted from its owner's
\* mapping (a KeyError, if another task deleted it first, is caught and
\* logged) and the operation goes on to its next pc.close()
pc_close(k) ==
  /\ task[k].at \in {"fwd", "rev"}
  /\ LET tk == task[k]
         owner == IF tk.at = "fwd" THEN tk.u ELSE tk.t
         key == IF tk.at = "fwd" THEN tk.t ELSE tk.u
         pcs == [peer_connections EXCEPT ![owner] = @ \ {key}]
     IN /\ peer_connections' = pcs
        /\ LinkResult(k, IF tk.at = "fwd" THEN EnterReverse(connections, pcs, tk) ELSE NextTarget(connections, pcs, tk),
                      key \in peer_connections[owner])
  /\ UNCHANGED <<connections, room_id, closed, rooms, active_recordings, recording_history, nextRec, clock, pc, loc, log>>

\* callers of the WebRTCManager over the registered connections
NextLinks ==
  \/ \E u \in Users : Connect(u)
  \/ \E u \in Users, t \in Users : create_peer_connection(u, t)
  \/ \E k \in Tasks, u \in Users, t \in Users : cleanup_peer_connection(k, u, t)
  \/ \E k \in Tasks, u \in Users : cleanup_all_user_connections(k, u)
  \/ \E k \in Tasks : pc_close(k)

SpecLinks == Init /\ [][NextLinks]_vars

\* the connectionState values that the handler of connectionstatechange tells apart
ConnectionStates == {"failed", "closed", "connected"}

\* a connectionstatechange that cleans up on "connected" too
StateChangeCleansUpMutant(st) == TRUE

\* on_connectionstatechange calls cleanup_peer_connection for these states
StateChangeCleansUp(st) == st \in {"failed", "closed"}

\* task k runs on_connectionstatechange of the handle u -> t, whose
\* connectionState is st, up to its first pc.close(): for "failed" and
\* "closed", cleanup_peer_connection(u, t) deletes the handle without closing
\* it (its state is closed or failed) and goes on to the reverse handle
on_connectionstatechange(k, u, t, st) ==
  /\ task[k].at = "idle"
  /\ u \in connections /\ t \in peer_connections[u]
  /\ LET tk == [TaskInit EXCEPT !.op = st, !.u = u, !.t = t]
         pcs == IF StateChangeCleansUp(st) THEN [peer_connections EXCEPT ![u] = @ \ {t}] ELSE peer_connections
     IN /\ peer_connections' = pcs
        /\ LinkResult(k, IF StateChangeCleansUp(st) THEN EnterReverse(connections, pcs, tk) ELSE tk, StateChangeCleansUp(st))
  /\ UNCHANGED <<connections, room_id, closed, rooms, active_recordings, recording_history, nextRec, clock, pc, loc, log>>

\* peer connections whose state changes are reported by the engine
NextStates ==
  \/ \E u \in 1..DownUsers : Connect(u)
  \/ \E u \in Users, t \in Users : create_peer_connection(u, t)
  \/ \E k \in Tasks, u \in Users, t \in Users, st \in ConnectionStates : on_connectionstatechange(k, u, t, st)
  \/ \E k \in Tasks : pc_close(k)

SpecStates == Init /\ [][NextStates]_vars

\* ------------------------------------------- main.cleanup_handler
\* the keys of the connection registry in insertion order (connections are
\* registered in the order of their ids)
RECURSIVE KeysInOrder(_)
KeysInOrder(S) == IF S = {} THEN <<>> ELSE LET m == CHOOSE x \in S : \A y \in S : x <= y IN <<m>> \o KeysInOrder(S \ {m})

\* the program state as the shutdown task tk sees and changes it; t and c are
\* the values that datetime.now() and, while websocket.close() is suspended,
\* websocket.closed take; sent: the messages sent in the step
SdState(tk, t, c) ==
  [connections |-> connections, room_id |-> room_id, closed |-> closed, peer_connections |-> peer_connections,
   rooms |-> rooms, active_recordings |-> active_recordings, recording_history |-> recording_history,
   clock |-> clock, tk |-> tk, t |-> t, c |-> c, sent |-> <<>>]

RECURSIVE SdLoop(_)
\* cleanup_user(S.tk.u) after its broadcast: the recording of the deleted room,
\* the peer connections, then remove_connection, which suspends in
\* websocket.close() if the websocket is open
SdTail(S) ==
  LET u == S.tk.u
      old == S.tk.old
      deleted == Truthy(old) /\ old \notin DOMAIN S.rooms
      cr == IF deleted THEN CleanupRoomRecording(S.active_recordings, S.recording_history, old, S.t)
            ELSE [rec |-> NoRecording, active |-> S.active_recordings, history |-> S.recording_history]
      S1 == [S EXCEPT !.active_recordings = cr.active, !.recording_history = cr.history,
                      !.clock = IF cr.rec # NoRecording THEN S.t ELSE @,
                      !.peer_connections = CleanupAllUserConnections(S.connections, S.peer_connections, u)]
      rm == RemoveConnection(S1.connections, S1.peer_connections, S1.closed, u)
  IN IF u \notin S1.connections THEN SdLoop(S1)
     ELSE IF ~S1.closed[u]
     THEN [S1 EXCEPT !.peer_connections[u] = {}, !.closed[u] = S.c, !.tk.at = "wsclose"]
     ELSE SdLoop([S1 EXCEPT !.connections = rm.connections, !.peer_connections = rm.peer_connections, !.closed = rm.closed])

\* websocket.close() returns to remove_connection: del self._connections[user_id]
\* raises a KeyError if the connection was removed meanwhile; cleanup_user
\* catches and logs it
SdWsClosed(S) ==
  LET u == S.tk.u
      S1 == [S EXCEPT !.closed[u] = TRUE]
  IN IF u \in S.connections THEN SdLoop([S1 EXCEPT !.connections = @ \ {u}])
     ELSE SdLoop([S1 EXCEPT !.tk.raised = "KeyError"])

\* broadcast_to_room(old, user_left) of cleanup_user(S.tk.u), from S.tk.bq on
SdBroadcast(S) ==
  LET q == DropUnsendable(S.tk.bq, S.connections, S.closed)
  IN IF q # <<>>
     THEN [S EXCEPT !.tk.at = "bcast", !.tk.bq = Tail(q),
                    !.sent = Append(@, [BaseMsg EXCEPT !.type = "user_left", !.user_id = S.tk.u, !.to = Head(q)])]
     ELSE SdTail(S)

\* cleanup_user(S.tk.u) up to its first suspension
SdCleanupUser(S) ==
  LET u == S.tk.u
      lv == LeaveRoom(S.connections, S.rooms, S.room_id, u)
      S1 == [S EXCEPT !.rooms = lv.rooms, !.room_id = lv.room_id, !.tk.old = lv.ret, !.tk.bq = <<>>]
  IN IF Truthy(lv.ret) THEN SdBroadcast([S1 EXCEPT !.tk.bq = ListExclude(GetRoomUsers(lv.rooms, lv.ret), u)])
     ELSE SdTail(S1)

\* for user_id in list(all_users.keys()): await chat_app.cleanup_user(user_id);
\* the cleanup_all_user_connections('') that follows finds no user
SdLoop(S) ==
  IF S.tk.todo = <<>> THEN [S EXCEPT !.tk.at = "exit"]
  ELSE SdCleanupUser([S EXCEPT !.tk.u = Head(S.tk.todo), !.tk.todo = Tail(S.tk.todo)])

\* the program continues from the state R that a piece of the shutdown task left
SdApply(R) ==
  /\ connections' = R.connections /\ room_id' = R.room_id /\ closed' = R.closed
  /\ peer_connections' = R.peer_connections /\ rooms' = R.rooms
  /\ active_recordings' = R.active_recordings /\ recording_history' = R.recording_history
  /\ clock' = R.clock
  /\ task' = [task EXCEPT ![1] = R.tk]
  /\ last' = Label(R.tk.u, [LocInit EXCEPT !.type = "cleanup_handler", !.old = R.tk.old], R.tk.at = "exit", R.sent)
  /\ UNCHANGED <<nextRec, pc, loc, log>>

\* the server shuts down: cleanup_handler up to its first suspension
cleanup_handler ==
  /\ task[1].at = "idle"
  /\ \E t \in NowIf(active_recordings # EmptyDict), c \in BOOLEAN :
       SdApply(SdLoop(SdState([TaskInit EXCEPT !.op = "cleanup_handler", !.todo = KeysInOrder(connections)], t, c)))

\* a send of the shutdown task's broadcast, or its websocket.close(), returns
cleanup_handler_resumes ==
  /\ task[1].at \in {"bcast", "wsclose"}
  /\ \E t \in NowIf(active_recordings # EmptyDict), c \in BOOLEAN :
       SdApply(IF task[1].at = "bcast" THEN SdBroadcast(SdState(task[1], t, c)) ELSE SdWsClosed(SdState(task[1], t, c)))

\* DownUsers connections, which receive messages until the client or the
\* server closes their websocket, and the shutdown of the server
NextDown ==
  \/ \E u \in 1..DownUsers : Connect(u)
  \/ \E u \in Users : handle_join_room(u, "a")
  \/ \E u \in Users : broadcast_to_room(u)
  \/ \E u \in Users : cleanup_user(u)
  \/ cleanup_handler
  \/ cleanup_handler_resumes

SpecDown == Init /\ [][NextDown]_vars

\* ------------------------------------------------ signaling relay
\* target ids as the clients send them: a session id, or 0 for a message
\* without target_id or with an empty one
Targets == 0..NumUsers

\* a relay that never reports a missing target
MissingTargetMutant(t) == FALSE

\* `not target_id`
MissingTarget(t) == t = 0

\* a send_error that sends nothing
SendErrorMutant(conns, cl, lg, u, text) == lg

\* send_error
SendError(conns, cl, lg, u, text) == SendToUser(conns, cl, lg, u, ErrorMsg(text))

\* a forwarded message that names the target as its origin
SignalMsgMutant(kind, u, t) == [BaseMsg EXCEPT !.type = kind, !.from_id = t, !.to = t]

\* the message that handle_offer, handle_answer and handle_ice_candidate forward
SignalMsg(kind, u, t) == [BaseMsg EXCEPT !.type = kind, !.from_id = u, !.to = t]

\* a relay that looks up the sender instead of the target
HandleSignalSenderMutant(conns, cl, lg, kind, u, t) ==
  IF u \notin conns THEN lg
  ELSE IF cl[u] THEN lg
  ELSE Append(lg, SignalMsg(kind, u, t))

\* a relay that does not look at the target's websocket
HandleSignalMutant(conns, cl, lg, kind, u, t) == IF t \notin conns THEN lg ELSE Append(lg, SignalMsg(kind, u, t))

\* WebRTCManager.handle_offer, handle_answer, handle_ice_candidate: nothing is
\* forwarded to a target that is not registered or whose websocket is closed
HandleSignal(conns, cl, lg, kind, u, t) ==
  IF t \notin conns THEN lg
  ELSE IF cl[t] THEN lg
  ELSE Append(lg, SignalMsg(kind, u, t))

\* the router's handler of an offer, answer or ice_candidate of u for t
Signal(u, kind, what, t) ==
  /\ pc[u] = "recv" /\ ~closed[u]
  /\ LET lc == [LocInit EXCEPT !.type = kind, !.target = t]
     IN IF MissingTarget(t)
        THEN Return(u, lc, SendError(connections, closed, <<>>, u, "Missing target_id in " \o what))
        ELSE Return(u, lc, HandleSignal(connections, closed, <<>>, kind, u, t))
  /\ UNCHANGED <<connections, room_id, closed, peer_connections, rooms, active_recordings, recording_history, nextRec, clock, task>>

handle_webrtc_offer(u, t) == Signal(u, "offer", "offer", t)

handle_webrtc_answer(u, t) == Signal(u, "answer", "answer", t)

handle_ice_candidate(u, t) == Signal(u, "ice_candidate", "ICE candidate", t)

\* handle_message for a message whose type is none of the seven it knows
handle_message_unknown(u) ==
  /\ pc[u] = "recv" /\ ~closed[u]
  /\ Return(u, [LocInit EXCEPT !.type = "unknown"], SendError(connections, closed, <<>>, u, "Unknown message type: unknown"))
  /\ UNCHANGED <<connections, room_id, closed, peer_connections, rooms, active_recordings, recording_history, nextRec, clock, task>>

\* connections whose clients join room "a", signal to each other and send
\* messages of unknown type
NextRelay ==
  \/ \E u \in Users : Connect(u)
  \/ \E u \in Users : handle_join_room(u, "a")
  \/ \E u \in Users, t \in Targets : handle_webrtc_offer(u, t)
  \/ \E u \in Users, t \in Targets : handle_webrtc_answer(u, t)
  \/ \E u \in Users, t \in Targets : handle_ice_candidate(u, t)
  \/ \E u \in Users : handle_message_unknown(u)
  \/ \E u \in Users : broadcast_to_room(u)
  \/ \E u \in Users : cleanup_user(u)

SpecRelay == Init /\ [][NextRelay]_vars

\* ------------------------------------------ RoomManager.cleanup_room
\* cleanup_room(r), called between two steps of the handlers; it has no
\* suspension point, every leave_room it awaits runs to its end
cleanup_room(r) ==
  /\ LET c == CleanupRoom(connections, rooms, room_id, r)
     IN /\ rooms' = c.rooms
        /\ room_id' = c.room_id
        /\ last' = Label(0, [LocInit EXCEPT !.type = "cleanup_room", !.room = r, !.ok = c.ret], TRUE, <<>>)
  /\ UNCHANGED <<connections, closed, peer_connections, active_recordings, recording_history, nextRec, clock, pc, loc, log, task>>

\* create_room(r, max), called between two steps of the handlers
create_room(r, max) ==
  /\ r \notin DOMAIN rooms => FreeUuids # {}
  /\ rooms' = CreateRoom(rooms, r, max, IF r \in DOMAIN rooms THEN 0 ELSE uuid4)
  /\ last' = Label(0, [LocInit EXCEPT !.type = "create_room", !.room = r, !.max_users = max], TRUE, <<>>)
  /\ UNCHANGED <<connections, room_id, closed, peer_connections, active_recordings, recording_history, nextRec, clock, pc, loc, log, task>>

\* DownUsers connections with room events, and rooms that are created and
\* cleaned up
NextRooms ==
  \/ \E r \in RoomIds, max \in 1..MaxCapacity : create_room(r, max)
  \/ \E u \in 1..DownUsers : Connect(u)
  \/ \E u \in Users, r \in RoomIds : handle_join_room(u, r)
  \/ \E u \in Users : handle_leave_room(u)
  \/ \E u \in Users : broadcast_to_room(u)
  \/ \E u \in Users : cleanup_user(u)
  \/ \E r \in RoomIds : cleanup_room(r)

SpecRooms == Init /\ [][NextRooms]_vars

\* --------------------------------------------- a sink that never drains
\* the session whose websocket never completes a send_str
StalledSink == 2

\* the user that the send in which u's handler is suspended goes to
PendingTo(u) == IF log[u] # <<>> THEN log[u][Len(log[u])].to ELSE 0

\* the send_str in which u's handler is suspended completes and the handler
\* runs on to its next send or to its end; a send to the stalled sink never does
send_completes(u) ==
  /\ PendingTo(u) # StalledSink
  /\ broadcast_to_room(u)

\* connections with room events, one of them with a sink that never drains
NextStall ==
  \/ \E u \in Users : Connect(u)
  \/ \E u \in Users, r \in RoomIds : handle_join_room(u, r)
  \/ \E u \in Users : handle_leave_room(u)
  \/ \E u \in Users : send_completes(u)

\* the event loop resumes every handler whose send has completed
SpecStall == Init /\ [][NextStall]_vars /\ \A u \in Users : WF_vars(send_completes(u))

\* ------------------------------------------- cleanup steps that raise
\* the handles that the teardown of u closes
TeardownHandles(u) ==
  {<<u, t>> : t \in peer_connections[u]} \cup {<<t, u>> : t \in {x \in peer_connections[u] : u \in peer_connections[x]}}

\* the client closes the connection, and in the teardown close() raises for
\* some of the handles
cleanup_user_close_raises(u) ==
  \E F \in (SUBSET TeardownHandles(u)) \ {{}} : Teardown(u, F)

\* the send_str in which u's handler is suspended raises: the message is not
\* delivered, the exception is logged and the handler runs on
send_raises(u) ==
  /\ pc[u] \in {"snap", "bcast"}
  /\ log[u] # <<>>
  /\ \E t \in NowIf(loc[u].k = "cleanup" /\ loc[u].old \in DOMAIN active_recordings) :
       LET q0 == IF pc[u] = "bcast" THEN loc[u].bq
                 ELSE IF loc[u].type = "join_room" THEN ListExclude(GetRoomUsers(rooms, loc[u].room), u)
                 ELSE GetRoomUsers(rooms, room_id[u])
       IN Broadcast(u, q0, loc[u], SubSeq(log[u], 1, Len(log[u]) - 1), rooms, active_recordings, recording_history, closed, clock, t)
  /\ UNCHANGED <<room_id, rooms, nextRec, task>>

\* DownUsers connections with rooms and peer connections, torn down with
\* sends and closes that raise
NextRaise ==
  \/ \E u \in 1..DownUsers : Connect(u)
  \/ \E u \in Users, r \in RoomIds : handle_join_room(u, r)
  \/ \E u \in Users, t \in 1..DownUsers : create_peer_connection(u, t)
  \/ \E u \in Users : broadcast_to_room(u)
  \/ \E u \in Users : send_raises(u)
  \/ \E u \in Users : cleanup_user(u)
  \/ \E u \in Users : cleanup_user_close_raises(u)

SpecRaise == Init /\ [][NextRaise]_vars

\* ------------------------------------------------------------ claims
\* the step just taken is the first piece of u's handler of a join_room for r
JoinStep(u, r) == pc[u] = "recv" /\ last'.user = u /\ last'.type = "join_room" /\ last'.room = r

\* the step just taken called leave_room(u) from handle_leave_room or cleanup_user
LeaveStep(u) == pc[u] = "recv" /\ last'.user = u /\ last'.type \in {"leave_room", "disconnect"}

\* the step just taken is the first piece of u's handler of a start_recording
StartStep(u) == pc[u] = "recv" /\ last'.user = u /\ last'.type = "start_recording"

IsMember(u, r) == r \in DOMAIN rooms /\ InList(u, rooms[r].users)

\* C1: for every registered session u and room id r, u's room reference is r
\* if and only if room r exists and lists u among its members
C1_RoomReferenceIffMember == \A u \in connections, r \in RoomIds : (room_id[u] = r) <=> IsMember(u, r)

\* C2: every room's member count is at most its capacity, whatever the
\* interleaving of the join_room handlers
C2_MemberCountWithinCapacity == \A r \in DOMAIN rooms : Len(rooms[r].users) <= rooms[r].max_users

\* a join into a full room was just rejected while the handler of another
\* session's join into the same room is still running
C2_Witness ==
  /\ last.type = "join_room" /\ ~last.ok /\ last.room \in DOMAIN rooms
  /\ Len(rooms[last.room].users) = rooms[last.room].max_users
  /\ \E v \in Users : v # last.user /\ pc[v] \in {"snap", "bcast"} /\ loc[v].type = "join_room" /\ loc[v].room = last.room

\* C3: a join_room by a session that is already a member of the room returns
\* true and leaves the room, its member list and the session's reference as they were
C3_RejoinIsNoOp ==
  [][\A u \in Users, r \in RoomIds :
       (JoinStep(u, r) /\ IsMember(u, r)) =>
         (last'.ok /\ r \in DOMAIN rooms' /\ rooms' = rooms /\ room_id'[u] = r)]_vars

\* C4: a join_room by a registered non-member into a room at capacity returns
\* false, changes no room, no room reference and no other registry, and sends
\* the joiner one error message and nobody else anything
C4_FullRoomRejectsJoin ==
  [][\A u \in Users, r \in RoomIds :
       (JoinStep(u, r) /\ u \in connections /\ r \in DOMAIN rooms /\ ~InList(u, rooms[r].users)
          /\ Len(rooms[r].users) = rooms[r].max_users) =>
         /\ ~last'.ok /\ last'.done
         /\ rooms' = rooms /\ room_id' = room_id /\ connections' = connections
         /\ active_recordings' = active_recordings /\ recording_history' = recording_history
         /\ peer_connections' = peer_connections
         /\ Len(last'.log) = 1 /\ last'.log[1].type = "error" /\ last'.log[1].to = u]_vars

\* a session that is a member of one room was just refused by another, full room
C4_Witness ==
  /\ last.type = "join_room" /\ ~last.ok /\ last.done
  /\ last.room \in DOMAIN rooms /\ Len(rooms[last.room].users) = rooms[last.room].max_users
  /\ \E r \in RoomIds : r # last.room /\ room_id[last.user] = r /\ IsMember(last.user, r)

\* C5: a leave that removes the last member of a room deletes the room in the
\* same step and returns its id; a leave by a session without a room returns
\* none and changes nothing
C5_LeaveOfLastMemberDeletesRoom ==
  [][\A u \in Users :
       LeaveStep(u) =>
         /\ room_id[u] = None => (last'.old = None /\ rooms' = rooms /\ room_id' = room_id)
         /\ \A r \in DOMAIN rooms :
              (InList(u, rooms[r].users) /\ Len(rooms[r].users) = 1
                 /\ (r \notin DOMAIN rooms' \/ ~InList(u, rooms'[r].users))) =>
                (r \notin DOMAIN rooms' /\ last'.old = r)]_vars

\* a leave_room event just removed the last member of a room
C5_Witness == last.type = "leave_room" /\ Truthy(last.old) /\ last.old \notin DOMAIN rooms /\ last.done

\* C6: a session id occurs at most once across the member lists of all rooms
C6_SessionInAtMostOneRoom ==
  \A u \in Users : Cardinality({<<r, i>> \in (DOMAIN rooms) \X (1..NumUsers) : i <= Len(rooms[r].users) /\ rooms[r].users[i] = u}) <= 1

\* C7: the room registry holds no room with zero members
C7_NoEmptyRoom == \A r \in DOMAIN rooms : Len(rooms[r].users) >= 1

\* a room exists with the member that created it, after a teardown deleted a room
C7_Witness ==
  /\ \E r \in DOMAIN rooms : Len(rooms[r].users) = 1
  /\ last.type = "disconnect" /\ Truthy(last.old) /\ last.old \notin DOMAIN rooms

\* C8: every active RecordingSession is the one of the room id it is stored
\* under (one per room), and a start for a room with an active recording
\* returns that recording's folder id and changes neither the active nor the
\* history set, the folder id being the one the creating start returned
C8_OneActiveRecordingPerRoom ==
  /\ [](\A r \in DOMAIN active_recordings : active_recordings[r].room_id = r /\ active_recordings[r].status = "active")
  /\ [][\A u \in Users :
          (StartStep(u) /\ last'.ok) =>
            /\ last'.room \in DOMAIN active_recordings' /\ last'.session_id = active_recordings'[last'.room].session_id
            /\ last'.room \in DOMAIN active_recordings =>
                 (active_recordings' = active_recordings /\ recording_history' = recording_history /\ ~last'.created)]_vars

\* a start_recording just found the recording another start had created
C8_Witness ==
  /\ last.type = "start_recording" /\ last.ok /\ ~last.created
  /\ last.room \in DOMAIN active_recordings /\ last.session_id = active_recordings[last.room].session_id

\* C9: no RecordingSession is active for a room id that is absent from the
\* room registry
C9_NoRecordingWithoutRoom == \A r \in DOMAIN active_recordings : r \in DOMAIN rooms

\* C10: no step removes or replaces an entry of the history set
C10_HistoryIsKept ==
  [][\A k \in DOMAIN recording_history : k \in DOMAIN recording_history' /\ recording_history'[k] = recording_history[k]]_vars

\* C11: the folder id of every active RecordingSession of a registered room is
\* the folder id of the room registered under that id, and every successful
\* start_recording returns the folder id of the room registered under its id
C11_RecordingFolderIsRoomFolder ==
  /\ [](\A r \in DOMAIN active_recordings : r \in DOMAIN rooms => active_recordings[r].session_id = rooms[r].session_id)
  /\ [][\A u \in Users :
          (StartStep(u) /\ last'.ok) => (last'.room \in DOMAIN rooms' /\ last'.session_id = rooms'[last'.room].session_id)]_vars

\* C12: when a cleanup_all_user_connections(x) of a registered x completes,
\* x's own mapping is empty and no other registered session's mapping has an
\* entry keyed by x, whatever handles existed before
C12_CloseAllLeavesNoLinkToSession ==
  [][\A x \in Users :
       (last'.type = "cleanup_all_user_connections" /\ last'.done /\ last'.user = x /\ x \in connections) =>
         (peer_connections'[x] = {} /\ \A y \in connections \ {x} : x \notin peer_connections'[y])]_vars

C14_TeardownRemovesSession ==
  \A u \in Users :
    pc[u] = "done" =>
      /\ u \notin connections
      /\ \A r \in DOMAIN rooms : ~InList(u, rooms[r].users)
      /\ peer_connections[u] = {}
      /\ closed[u]

\* the step just taken is a piece of the cleanup_user of u
TeardownStep(u) == last'.user = u /\ last'.type = "disconnect"

C16_UnregisterTwiceRaisesNoError ==
  /\ [](\A k \in Tasks : task[k].raised = "")
  /\ [][\A u \in Users :
          (last'.type \in {"cleanup_handler", "disconnect"} /\ last'.user = u /\ last'.done) => u \notin connections']_vars

SignalKinds == {"offer", "answer", "ice_candidate"}

\* the step just taken is u's handler of an offer, answer or ice_candidate for t
SignalStep(u, t) == pc[u] = "recv" /\ last'.user = u /\ last'.type \in SignalKinds /\ last'.target = t

\* the step just taken changed no registry: sessions, rooms, links, recordings
RegistriesUnchanged ==
  /\ connections' = connections /\ room_id' = room_id /\ closed' = closed
  /\ peer_connections' = peer_connections /\ rooms' = rooms
  /\ active_recordings' = active_recordings /\ recording_history' = recording_history

\* C17: an offer, answer or ice_candidate whose target is not registered or has
\* a closed websocket is dropped: the handler returns normally, having sent
\* nothing to anybody (no error to the sender either) and changed no registry
C17_SignalToAbsentTargetIsDropped ==
  [][\A u \in Users, t \in Users :
       (SignalStep(u, t) /\ (t \notin connections \/ closed[t])) =>
         (last'.log = <<>> /\ last'.done /\ pc'[u] = "recv" /\ RegistriesUnchanged)]_vars

\* a signal for a registered session whose websocket is closed (it is being
\* torn down) was just dropped
C17_Witness ==
  /\ last.type \in SignalKinds /\ last.done /\ last.log = <<>>
  /\ last.target \in connections /\ closed[last.target]

\* C18: an offer, answer or ice_candidate of a for a registered target b with an
\* open websocket sends exactly one message, of the same kind, to b, with a as
\* its from_id, and changes no registry
C18_SignalIsForwardedToTargetOnly ==
  [][\A a \in Users, b \in Users :
       (SignalStep(a, b) /\ b \in connections /\ ~closed[b]) =>
         /\ Len(last'.log) = 1 /\ last'.log[1].to = b /\ last'.log[1].type = last'.type /\ last'.log[1].from_id = a
         /\ last'.done /\ RegistriesUnchanged]_vars

\* a signal was just forwarded to another session, both being members of a room
C18_Witness ==
  /\ last.type \in SignalKinds /\ last.done /\ Len(last.log) = 1
  /\ last.log[1].to = last.target /\ last.target # last.user /\ last.log[1].from_id = last.user
  /\ IsMember(last.user, "a") /\ IsMember(last.target, "a")

\* C19: an offer, answer or ice_candidate without a target id sends exactly one
\* error message, to the sender, relays nothing, and leaves the sender
\* registered with its websocket open
C19_SignalWithoutTargetIsAnError ==
  [][\A u \in Users :
       SignalStep(u, 0) =>
         /\ Len(last'.log) = 1 /\ last'.log[1].to = u /\ last'.log[1].type = "error"
         /\ last'.done /\ u \in connections' /\ ~closed'[u] /\ pc'[u] = "recv"]_vars

\* a signal without a target was just answered with an error while another
\* session is registered with an open websocket
C19_Witness ==
  /\ last.type \in SignalKinds /\ last.target = 0 /\ last.done
  /\ Len(last.log) = 1 /\ last.log[1].type = "error"
  /\ \E v \in connections : v # last.user /\ ~closed[v]

\* C20: a message of unknown type sends exactly one error message, to the
\* sender, leaves the sender registered with its websocket open and its task
\* at the receive of its next message, and changes no registry
C20_UnknownTypeIsAnError ==
  [][\A u \in Users :
       (pc[u] = "recv" /\ last'.user = u /\ last'.type = "unknown") =>
         /\ Len(last'.log) = 1 /\ last'.log[1].to = u /\ last'.log[1].type = "error"
         /\ last'.done /\ u \in connections' /\ ~closed'[u] /\ pc'[u] = "recv"
         /\ RegistriesUnchanged]_vars

\* a member of a room with another member just got the error for a message of
\* unknown type
C20_Witness ==
  /\ last.type = "unknown" /\ last.done /\ Len(last.log) = 1 /\ last.log[1].to = last.user
  /\ IsMember(last.user, "a") /\ Len(rooms["a"].users) = 2

\* the messages that the step just taken by u's handler has sent
NewMsgs(u) == SubSeq(last'.log, Len(log[u]) + 1, Len(last'.log))

\* the step just taken is a piece of the broadcast of u's handler of an event
\* of the given type
BroadcastStep(u, type) == pc[u] \in {"snap", "bcast"} /\ loc[u].type = type /\ last'.user = u

\* the first piece of a broadcast over the recipients q: one message of the
\* given type about u to the first of q that can be sent to, or none at all
SentToFirstOf(u, q, type) ==
  LET open == SelectSeq(q, LAMBDA v : v \in connections /\ ~closed[v])
  IN IF open = <<>> THEN NewMsgs(u) = <<>>
     ELSE /\ Len(NewMsgs(u)) = 1 /\ ~last'.done
          /\ NewMsgs(u)[1].type = type /\ NewMsgs(u)[1].user_id = u /\ NewMsgs(u)[1].to = Head(open)
          /\ loc'[u].bq = Tail(SelectSeq(q, LAMBDA v : v = Head(open) \/ ~InList(v, SubSeq(q, 1, FirstIndex(q, Head(open))))))

\* C21: a join_room of u for r for which join_room returns true sends u one
\* room_joined with r's members other than u in list order, r's folder id and
\* capacity, and then user_joined for u, one after the other, to the members of
\* r other than u that can be sent to, and to nobody else
C21_JoinNotifications ==
  [][\A u \in Users :
       /\ \A r \in RoomIds :
            (JoinStep(u, r) /\ last'.ok) =>
              /\ r \in DOMAIN rooms' /\ Len(last'.log) = 1 /\ ~last'.done
              /\ last'.log[1].type = "room_joined" /\ last'.log[1].to = u /\ last'.log[1].room_id = r
              /\ last'.log[1].existing_users = ListExclude(rooms'[r].users, u)
              /\ last'.log[1].session_id = rooms'[r].session_id
              /\ last'.log[1].max_users = rooms'[r].max_users
       /\ BroadcastStep(u, "join_room") =>
            SentToFirstOf(u, IF pc[u] = "snap" THEN ListExclude(GetRoomUsers(rooms, loc[u].room), u) ELSE loc[u].bq, "user_joined")]_vars

\* the step just taken is the first piece of u's handler of a leave_room
LeaveEvent(u) == pc[u] = "recv" /\ last'.user = u /\ last'.type = "leave_room"

\* a piece of handle_leave_room from its broadcast over q on: user_left to the
\* first of q that can be sent to, with u's peer connections untouched, or, if
\* there is none, the cleanup of u's peer connections and then room_left to u
LeaveRoomPiece(u, q, r) ==
  LET open == SelectSeq(q, LAMBDA v : v \in connections /\ ~closed[v])
  IN IF open # <<>>
     THEN /\ Len(NewMsgs(u)) = 1 /\ ~last'.done
          /\ NewMsgs(u)[1].type = "user_left" /\ NewMsgs(u)[1].user_id = u /\ NewMsgs(u)[1].to = Head(open)
          /\ peer_connections' = peer_connections
     ELSE /\ Len(NewMsgs(u)) = 1 /\ last'.done
          /\ NewMsgs(u)[1].type = "room_left" /\ NewMsgs(u)[1].room_id = r /\ NewMsgs(u)[1].to = u
          /\ peer_connections'[u] = {}

\* C22: a leave_room of a session u that is in room r removes u from r, sends
\* user_left for u to the remaining members of r that can be sent to, then
\* closes u's peer connections and then sends room_left to u; a leave_room of
\* a session without a room sends nothing and changes nothing
C22_LeaveNotifications ==
  [][\A u \in Users :
       /\ (LeaveEvent(u) /\ room_id[u] = None) => (last'.log = <<>> /\ last'.done /\ RegistriesUnchanged)
       /\ \A r \in RoomIds :
            (LeaveEvent(u) /\ room_id[u] = r /\ IsMember(u, r)) =>
              /\ r \notin DOMAIN rooms' \/ ~InList(u, rooms'[r].users)
              /\ room_id'[u] = None
              /\ LeaveRoomPiece(u, ListExclude(GetRoomUsers(rooms', r), u), r)
       /\ BroadcastStep(u, "leave_room") => LeaveRoomPiece(u, loc[u].bq, loc[u].old)]_vars

\* the step just taken is the first piece of u's handler of a stop_recording
\* that reaches stop_recording(room_id[u])
StopStep(u) ==
  /\ pc[u] = "recv" /\ last'.user = u /\ last'.type = "stop_recording"
  /\ u \in connections /\ Truthy(room_id[u])

\* C23: stop_recording(r) with an active recording of r sets its end time and
\* the status "stopped", takes it out of the active recordings, puts it into
\* the history under its session id and returns it with a duration of at
\* least 0; with no active recording of r (as after a stop that no start
\* followed) it returns None and changes neither the active recordings nor
\* the history
C23_StopMovesRecordingToHistory ==
  [][\A u \in Users : StopStep(u) =>
       LET r == room_id[u]
       IN IF r \in DOMAIN active_recordings
          THEN LET sid == active_recordings[r].session_id
               IN /\ active_recordings' = DictDel(active_recordings, r)
                  /\ sid \in DOMAIN recording_history'
                  /\ recording_history'[sid] = [active_recordings[r] EXCEPT !.ended_at = clock', !.status = "stopped"]
                  /\ recording_history'[sid].ended_at # NoTime
                  /\ \A x \in DOMAIN recording_history : x # sid => (x \in DOMAIN recording_history' /\ recording_history'[x] = recording_history[x])
                  /\ last'.ok /\ last'.session_id = sid
                  /\ Len(last'.log) = 1 /\ last'.log[1].type = "recording_stopped"
                  /\ last'.log[1].duration = Duration(recording_history'[sid])
                  /\ last'.log[1].duration >= 0
          ELSE /\ ~last'.ok
               /\ active_recordings' = active_recordings
               /\ recording_history' = recording_history]_vars

\* a stop_recording for a room whose recording had been stopped before found
\* no active recording
C23_Witness ==
  /\ last.type = "stop_recording" /\ ~last.ok /\ Truthy(last.room)
  /\ \E x \in DOMAIN recording_history :
       recording_history[x].room_id = last.room /\ recording_history[x].status = "stopped"
  /\ last.room \in DOMAIN rooms /\ rooms[last.room].session_id \in DOMAIN recording_history

\* the step just taken is the first piece of u's handler of a start_recording
\* or stop_recording
RecordingEvent(u, type) == pc[u] = "recv" /\ last'.user = u /\ last'.type = type

\* C24: a start_recording or stop_recording of a session without a room, and
\* a stop_recording of a session whose room has no active recording, sends
\* one error message, to the sender, broadcasts nothing and changes neither
\* the active recordings nor the history
C24_RecordingErrors ==
  [][\A u \in Users :
       (\/ RecordingEvent(u, "start_recording") /\ room_id[u] = None
        \/ RecordingEvent(u, "stop_recording") /\ room_id[u] = None
        \/ RecordingEvent(u, "stop_recording") /\ room_id[u] \notin DOMAIN active_recordings)
       => /\ last'.done
          /\ Len(last'.log) = 1 /\ last'.log[1].type = "error" /\ last'.log[1].to = u
          /\ active_recordings' = active_recordings
          /\ recording_history' = recording_history]_vars

\* a start_recording of a session without a room was answered with an error
\* while another room was being recorded
C24_Witness ==
  /\ last.type = "start_recording" /\ last.room = None /\ last.done
  /\ Len(last.log) = 1 /\ last.log[1].type = "error"
  /\ active_recordings # EmptyDict

\* C25: start_recording(r) for an r that is not in the rooms raises "Room not
\* found" and creates no recording: the active recordings and the history
\* stay as they are; the start_recording event then sends one error message,
\* to the sender, and broadcasts nothing
C25_StartWithoutRoomFails ==
  [][\A u \in Users :
       (StartStep(u) /\ u \in connections /\ Truthy(room_id[u]) /\ room_id[u] \notin DOMAIN rooms)
       => /\ ~last'.ok /\ ~last'.created /\ last'.done
          /\ Len(last'.log) = 1 /\ last'.log[1] = [ErrorMsg("Room not found") EXCEPT !.to = u]
          /\ active_recordings' = active_recordings
          /\ recording_history' = recording_history
          /\ nextRec' = nextRec]_vars

\* a start_recording failed for a room that is gone while a recording of that
\* room is still active
C25_Witness ==
  /\ last.type = "start_recording" /\ Truthy(last.room) /\ ~last.ok /\ last.done
  /\ last.room \notin DOMAIN rooms /\ last.room \in DOMAIN active_recordings
  /\ Len(last.log) = 1 /\ last.log[1].message = "Room not found"

\* the step just taken is cleanup_room(r)
CleanupRoomStep(r) == last'.type = "cleanup_room" /\ last'.room = r /\ last' # last

\* C26: cleanup_room(r) of a room r that has users, all of them registered,
\* returns True, and then r is not in the rooms and none of those users has a
\* room; cleanup_room of an r that is not in the rooms returns False and
\* changes nothing
C26_CleanupRoomDeletesRoom ==
  [][\A r \in RoomIds : CleanupRoomStep(r) =>
       IF r \in DOMAIN rooms
       THEN (rooms[r].users # <<>> /\ \A i \in 1..Len(rooms[r].users) : rooms[r].users[i] \in connections)
            => /\ last'.ok
               /\ r \notin DOMAIN rooms'
               /\ \A i \in 1..Len(rooms[r].users) : room_id'[rooms[r].users[i]] = None
       ELSE ~last'.ok /\ rooms' = rooms /\ room_id' = room_id]_vars

\* C27: a join_room by a registered session that is not a user of the room,
\* into a room with fewer users than max_users, returns True and appends the
\* session to the room's users; so with max_users = 2, when 1 has left the
\* room of 1 and 2, a join_room of 3 succeeds and the users are then <<2, 3>>
C27_JoinBelowCapacitySucceeds ==
  [][\A u \in Users, r \in RoomIds :
       (JoinStep(u, r) /\ u \in connections /\ ~IsMember(u, r)
          /\ (r \in DOMAIN rooms => Len(rooms[r].users) < rooms[r].max_users)) =>
         /\ last'.ok
         /\ r \in DOMAIN rooms'
         /\ rooms'[r].users = Append(GetRoomUsers(rooms, r), u)
         /\ room_id'[u] = r]_vars

\* 3 has just joined the room that 1 is leaving (its handler still runs) and
\* in which 2 has stayed
C27_Witness ==
  /\ last.type = "join_room" /\ last.user = 3 /\ last.ok /\ last.room = "a"
  /\ "a" \in DOMAIN rooms /\ rooms["a"].users = <<2, 3>> /\ rooms["a"].max_users = 2
  /\ pc[1] = "bcast" /\ loc[1].type = "leave_room" /\ loc[1].old = "a"

\* C28: a leave_room event or a teardown of a session u that is in room r
\* takes u out of r and unsets u's room_id, and when u was the last user of r
\* (the other users having left before, in whatever order, with or without a
\* recording started meanwhile) r is then not in the rooms and no recording of
\* r is active
C28_AllLeftLeavesNothing ==
  [][\A u \in Users, r \in RoomIds :
       (LeaveStep(u) /\ u \in connections /\ room_id[u] = r /\ IsMember(u, r)) =>
         /\ room_id'[u] = None
         /\ r \notin DOMAIN rooms' \/ ~InList(u, rooms'[r].users)
         /\ Len(rooms[r].users) = 1 => (r \notin DOMAIN rooms' /\ r \notin DOMAIN active_recordings')]_vars

\* u's handler of an event is suspended in one of its sends
InHandler(u) == pc[u] \in {"snap", "bcast"}

\* C29: the events of a session are handled one after the other: the handler
\* of u's next event (or u's teardown) begins only when no handler of u is
\* under way, a handler of u that is under way is continued by u's steps only,
\* with the same event and with the messages it has sent kept; handlers of
\* different sessions interleave at their sends
C29_EventsOfSessionInOrder ==
  [][\A u \in Users :
       /\ (last'.user = u /\ ~InHandler(u)) => (loc[u] = LocInit /\ log[u] = <<>>)
       /\ (last'.user = u /\ InHandler(u)) =>
            /\ last'.type = loc[u].type /\ last'.room = loc[u].room /\ last'.old = loc[u].old
            /\ Len(last'.log) >= Len(log[u]) /\ SubSeq(last'.log, 1, Len(log[u])) = log[u]
       /\ (last'.user # u /\ InHandler(u)) => (pc'[u] = pc[u] /\ loc'[u] = loc[u] /\ log'[u] = log[u])]_vars

\* session 2 has begun the handling of its second event (it is in a room and
\* stops a recording) while the handler of session 1 is suspended in a send
C29_Witness ==
  /\ last.user = 2 /\ last.type = "stop_recording" /\ last.ok /\ ~last.done
  /\ pc[1] = "bcast" /\ InHandler(2)

\* C30: a send to one session's sink that never completes blocks no other
\* session: the handler of every other session, the one that is broadcasting
\* to the stalled sink included, comes to its end, so that the session's next
\* event is dispatched
C30_StalledSinkBlocksNoOtherSession ==
  \A u \in Users \ {StalledSink} : InHandler(u) ~> ~InHandler(u)

\* the step just taken is the last one of the teardown of u
TeardownEnds(u) == last'.user = u /\ last'.type = "disconnect" /\ last'.done /\ pc[u] \in {"recv", "bcast"} /\ pc'[u] = "done"

\* a step of the teardown of u has raised: a close() of a peer connection, or
\* the send in which the teardown was suspended
TeardownStepRaised(u) == last'.raises # {} \/ (pc[u] = "bcast" /\ Len(last'.log) < Len(log[u]))

\* C31: when steps of the teardown of u raise (a close() of a peer
\* connection, a send of the broadcast), the teardown still runs to its end,
\* and then u is in no room's users, has no peer connections and is not
\* registered
C31_TeardownSurvivesFailingSteps ==
  [][\A u \in Users : (TeardownEnds(u) /\ TeardownStepRaised(u)) =>
       /\ \A r \in DOMAIN rooms' : ~InList(u, rooms'[r].users)
       /\ peer_connections'[u] = {}
       /\ u \notin connections']_vars

\* the step just taken is one of on_connectionstatechange of the handle
\* u -> t in state st, run by task k
StateChangeStep(k, u, t, st) ==
  /\ last'.user = u /\ last'.target = t /\ last'.type = st
  /\ \/ task[k].at = "idle" /\ t \in peer_connections[u] /\ (task'[k].op = st \/ last'.done) /\ \A j \in Tasks \ {k} : task'[j] = task[j]
     \/ task[k].op = st /\ task[k].u = u /\ task[k].t = t /\ task'[k] # task[k]

CreateStep(u, t) == last'.type = "create_peer_connection" /\ last'.user = u /\ last'.target = t /\ last' # last

\* C33: create_peer_connection(u, t) returns the handle that u has for t, if
\* there is one, and constructs none; otherwise it constructs one handle and
\* stores it in u's peer connections under t, the peer connections of the
\* others, t's too, staying as they are; so no handle is ever constructed for
\* a pair that has one
C33_OneHandlePerOrderedPair ==
  [][\A u \in Users, t \in Users : CreateStep(u, t) =>
       IF t \in peer_connections[u]
       THEN ~last'.created /\ peer_connections' = peer_connections
       ELSE /\ last'.created
            /\ peer_connections'[u] = peer_connections[u] \cup {t}
            /\ \A x \in Users \ {u} : peer_connections'[x] = peer_connections[x]]_vars

\* create_peer_connection(u, t) has just returned the handle that u already
\* had for t, while t has a handle for u
C33_Witness ==
  /\ last.type = "create_peer_connection" /\ ~last.created
  /\ last.target \in peer_connections[last.user]
  /\ last.target # last.user /\ last.user \in peer_connections[last.target]

\* C34: max_users and session_id of a room stay as they are as long as the
\* room is in the rooms: no join, leave, teardown or cleanup changes them, and
\* create_room(r, max) for an r that is in the rooms changes nothing
C34_CapacityAndFolderAreFixed ==
  [][/\ \A r \in (DOMAIN rooms) \cap (DOMAIN rooms') :
          rooms'[r].max_users = rooms[r].max_users /\ rooms'[r].session_id = rooms[r].session_id
     /\ \A r \in DOMAIN rooms : (last'.type = "create_room" /\ last'.room = r) => rooms' = rooms]_vars

\* create_room was just called with another max_users for a room that has users
C34_Witness ==
  /\ last.type = "create_room" /\ last.room \in DOMAIN rooms
  /\ rooms[last.room].max_users # last.max_users
  /\ rooms[last.room].users # <<>>

\* while the handlers of the join_room of a and of b into the same room are
\* under way, b's room_joined lists a and a's handler has sent user_joined
\* for a to b
AnnouncedTwice(a, b) ==
  /\ a # b
  /\ loc[a].type = "join_room" /\ loc[b].type = "join_room" /\ loc[a].room = loc[b].room
  /\ \E i \in 1..Len(log[a]) : log[a][i].type = "user_joined" /\ log[a][i].user_id = a /\ log[a][i].to = b
  /\ \E j \in 1..Len(log[b]) : log[b][j].type = "room_joined" /\ log[b][j].to = b /\ InList(a, log[b][j].existing_users)

\* C35: with join_room events of two sessions into the same room under way
\* at the same time, no session is told twice of the other: b is never sent
\* both room_joined with a among the existing users and user_joined for a
C35_JoinAnnouncedOnce == \A a \in Users, b \in Users : ~AnnouncedTwice(a, b)

\* the users of room r after the step that can be sent to, in list order
OpenUsersAfter(r) == IF r \in DOMAIN rooms' THEN SelectSeq(rooms'[r].users, LAMBDA v : v \in connections /\ ~closed[v]) ELSE <<>>

\* the step just taken sent user_left for u to v
SentUserLeft(u, v) ==
  \E i \in 1..Len(last'.log) : last'.log[i].type = "user_left" /\ last'.log[i].user_id = u /\ last'.log[i].to = v

\* C36: when a step of session u (of its leave_room, of its teardown, or of
\* a join_room into another room) takes u out of the users of a room r in
\* which users stay, user_left for u is sent to those of them that can be sent
\* to: to the first of them in that step, to each further one as the
\* broadcast goes on
C36_EveryExitIsAnnounced ==
  [][\A u \in Users :
       /\ \A r \in RoomIds :
            (last'.user = u /\ IsMember(u, r) /\ ~InList(u, GetRoomUsers(rooms', r)) /\ OpenUsersAfter(r) # <<>>)
              => SentUserLeft(u, Head(OpenUsersAfter(r)))
       /\ (pc[u] = "bcast" /\ last'.user = u /\ loc[u].type \in {"leave_room", "disconnect"}
             /\ DropUnsendable(loc[u].bq, connections, closed) # <<>>)
              => SentUserLeft(u, Head(DropUnsendable(loc[u].bq, connections, closed)))]_vars

\* C37: in every reachable state every session id in the member list of a
\* room is a registered session, also while the teardown of a session at the
\* shutdown of the server overlaps the handling of that session's own events
C37_MembersAreRegistered ==
  \A r \in DOMAIN rooms : \A i \in 1..Len(rooms[r].users) : rooms[r].users[i] \in connections

\* the step is a start_recording of u in which create_session_folder raised
StartFolderFailed(u) ==
  /\ pc[u] = "recv" /\ last'.user = u /\ last'.type = "start_recording"
  /\ \E i \in 1..Len(last'.log) :
       last'.log[i].type = "error" /\ last'.log[i].message = "Error processing start_recording"

\* C38: a start_recording for room R that fails because the session folder
\* cannot be ensured leaves no recording of R in the active recordings
C38_FailedStartLeavesNoRecording ==
  [][\A u \in Users : StartFolderFailed(u) => room_id[u] \notin DOMAIN active_recordings']_vars

\* --------------------------------- RecordingManager.save_recording
\* the active recordings whose session id is s, by room; the session ids of
\* two active recordings differ, each is the uuid of another room
ActiveWithSession(act, s) == {r \in DOMAIN act : act[r].session_id = s}

\* a save_recording whose failure marks the recording that
\* get_recording_session finds, in the active recordings or in the history
SaveRecordingMutant(act, hist, s, f, fail) ==
  LET m == ActiveWithSession(act, s)
      r == CHOOSE x \in m : TRUE
  IN IF m # {} THEN [ok |-> ~fail, active |-> IF fail THEN [act EXCEPT ![r].status = "error"] ELSE [act EXCEPT ![r].files = Append(@, f)], history |-> hist]
     ELSE IF s \in DOMAIN hist THEN [ok |-> ~fail, active |-> act, history |-> IF fail THEN [hist EXCEPT ![s].status = "error"] ELSE [hist EXCEPT ![s].files = Append(@, f)]]
     ELSE [ok |-> ~fail, active |-> act, history |-> hist]

\* save_recording(s, f, data); fail: storage_manager.save_file raises (the
\* file is too large, the disk is full). A saved file is appended to the
\* recording that get_recording_session returns (active recordings first,
\* then the history); after a failure the active recording of the session,
\* if there is one, gets status "error", and the exception is raised again
SaveRecording(act, hist, s, f, fail) ==
  LET m == ActiveWithSession(act, s)
      r == CHOOSE x \in m : TRUE
  IN IF fail
     THEN [ok |-> FALSE, active |-> IF m # {} THEN [act EXCEPT ![r].status = "error"] ELSE act, history |-> hist]
     ELSE IF m # {} THEN [ok |-> TRUE, active |-> [act EXCEPT ![r].files = Append(@, f)], history |-> hist]
     ELSE IF s \in DOMAIN hist THEN [ok |-> TRUE, active |-> act, history |-> [hist EXCEPT ![s].files = Append(@, f)]]
     ELSE [ok |-> TRUE, active |-> act, history |-> hist]

\* the files that a recording of session s has so far
FilesOf(act, hist, s) ==
  IF ActiveWithSession(act, s) # {} THEN act[CHOOSE x \in ActiveWithSession(act, s) : TRUE].files
  ELSE IF s \in DOMAIN hist THEN hist[s].files
  ELSE <<>>

\* save_recording(s, "f", data), called between two steps of the handlers;
\* it has no suspension point
save_recording(s, fail) ==
  /\ ~fail => Len(FilesOf(active_recordings, recording_history, s)) < MaxFiles
  /\ LET sv == SaveRecording(active_recordings, recording_history, s, "f", fail)
     IN /\ active_recordings' = sv.active
        /\ recording_history' = sv.history
        /\ last' = Label(0, [LocInit EXCEPT !.type = "save_recording", !.session_id = s, !.ok = sv.ok], TRUE, <<>>)
  /\ UNCHANGED <<connections, room_id, closed, peer_connections, rooms, nextRec, clock, pc, loc, log, task>>

\* RecUsers connections whose clients start and stop recordings in room "a",
\* and recording files that are saved
NextSave ==
  \/ \E u \in 1..RecUsers : Connect(u)
  \/ \E u \in Users : handle_join_room(u, "a")
  \/ \E u \in Users : handle_start_recording(u)
  \/ \E u \in Users : handle_stop_recording(u)
  \/ \E u \in Users : broadcast_to_room(u)
  \/ \E u \in Users : cleanup_user(u)
  \/ \E s \in 1..MaxUuid, fail \in BOOLEAN : save_recording(s, fail)

SpecSave == Init /\ [][NextSave]_vars

\* the statuses of the model that start with "stopped"
StartsWithStopped(st) == st \in {"stopped", "stopped (room deleted)"}

\* every recording in the history has an end and a status "stopped..."
HistoryIsStopped ==
  \A s \in DOMAIN recording_history :
    recording_history[s].ended_at # NoTime /\ StartsWithStopped(recording_history[s].status)

\* C39 as stated: every active recording has status "active" and no end,
\* every recording in the history has an end and a status that starts with
\* "stopped", also after a failed save of a recording file
C39_ActiveIsActiveHistoryIsStopped ==
  /\ \A r \in DOMAIN active_recordings :
       active_recordings[r].status = "active" /\ active_recordings[r].ended_at = NoTime
  /\ HistoryIsStopped

\* C39 amended: an active recording has no end and status "active", or
\* "error" once a save of one of its files has failed; every recording in
\* the history has an end and a status that starts with "stopped"
C39_ActiveOrErrorHistoryIsStopped ==
  /\ \A r \in DOMAIN active_recordings :
       active_recordings[r].status \in {"active", "error"} /\ active_recordings[r].ended_at = NoTime
  /\ HistoryIsStopped

\* a save has just failed for a session that has a recording in the history
\* and an active recording, which is now marked
C39_Witness ==
  /\ last.type = "save_recording" /\ ~last.ok
  /\ last.session_id \in DOMAIN recording_history
  /\ \E r \in DOMAIN active_recordings :
       active_recordings[r].session_id = last.session_id /\ active_recordings[r].status = "error"

\* a and b are members of one room
InSameRoom(a, b) == \E r \in DOMAIN rooms : InList(a, rooms[r].users) /\ InList(b, rooms[r].users)

\* the signaling messages sent in the step just taken
SignalsSent == {i \in 1..Len(last'.log) : last'.log[i].type \in SignalKinds}

\* C40 as stated: an offer, answer or ice_candidate of one session is delivered
\* to another only if the two are members of the same room when it is relayed
C40_SignalsStayInsideTheRoom ==
  [][\A i \in SignalsSent :
       last'.log[i].from_id # last'.log[i].to => InSameRoom(last'.log[i].from_id, last'.log[i].to)]_vars

\* C40 amended: an offer, answer or ice_candidate is delivered only to the
\* target that its sender named, that target being registered with an open
\* websocket when it is relayed, and it names as its origin the session whose
\* event it relays; a room of sender or target plays no part
C40_SignalsReachTheNamedOpenTarget ==
  [][\A i \in SignalsSent :
       /\ last'.type = last'.log[i].type
       /\ last'.log[i].to = last'.target /\ last'.target \in connections /\ ~closed[last'.target]
       /\ last'.log[i].from_id = last'.user /\ pc[last'.user] = "recv"]_vars

\* a session that is in no room has just signaled to a member of room "a"
C40_Witness ==
  /\ last.type \in SignalKinds /\ last.done /\ Len(last.log) = 1
  /\ last.log[1].to = last.target /\ last.log[1].from_id = last.user /\ last.target # last.user
  /\ last.user \in connections /\ ~Truthy(room_id[last.user])
  /\ IsMember(last.target, "a")

====
